---- MODULE Spec2Model ----
(***************************************************************************)
(* APTEEN (LEACH-Prim clustering + TEEN thresholds), src/router/apteen.py. *)
(* The state is the protocol object's fields; one action per public        *)
(* operation.  Node, LEACH and LEACHPrim (router/__init__.py,              *)
(* router/leach.py) are modelled from the specification.                   *)
(***************************************************************************)
EXTENDS Integers, Sequences, FiniteSets, TLC

\* ---------------------------------------------------------------- bounds
MaxTicks == 3          \* operations of the driver explored
MaxCalls == 2          \* of which parameter operations and threshold probes
MaxRST == 3            \* cap of rounds_since_transmission
EMax == 20             \* Node.energy_max, in units of one size unit sent

\* ------------------------------------------------------ program constants
SizeControl == 1       \* size_control, scaled
SizeData == 5          \* size_data, scaled (a multiple of AggRateDen)
AggRateNum == 3        \* agg_rate = 0.6 = 3/5
AggRateDen == 5
Sink == 0
NonSinks == {1, 2, 3}
Nodes == NonSinks \cup {Sink}
Values == {1, 2}       \* range of the data generator
HardThreshold0 == 2    \* constructor defaults hard_threshold, soft_threshold,
SoftThreshold0 == 1    \* count_time, scaled to the value range
CountTime0 == 2
\* the arguments the driver passes: a query moves a default to another
\* value (0 among them), overrides set one triple that differs from the defaults
QueryHT == 1
QueryST == 0
QueryTC == 1
Overrides == {<<1, 2, 1>>}
Position == [n \in Nodes |-> n]   \* the nodes stand on a line, the sink at its end
NoArg == -1            \* Python None for an omitted query argument

VARIABLES
  energy,                     \* Node.energy of every non-sink node
  clusters,                   \* head -> ordered members (child heads included)
  round,
  hard_threshold, soft_threshold, count_time,
  cluster_parameters,         \* head -> <<HT, ST, TC>>
  last_values,                \* node -> last sensed value
  last_transmission,          \* node -> last transmitted value
  rounds_since_transmission,  \* defaultdict(int): node -> count
  parameters_broadcasted,     \* head -> TRUE
  announced,                  \* head -> the <<HT, ST, TC>> of its last broadcast
  query_pending,              \* a query was issued and no setup has run since
  lastOp,                     \* the operation that produced this state
  log,                        \* events of the last phase operation
  ticks, calls                \* exploration counters

vars == <<energy, clusters, round, hard_threshold, soft_threshold, count_time,
          cluster_parameters, last_values, last_transmission,
          rounds_since_transmission, parameters_broadcasted, announced,
          query_pending,
          lastOp, log, ticks, calls>>

\* ---------------------------------------------------------------- helpers
EmptyMap == [x \in {} |-> 0]

Put(f, k, v) == [x \in DOMAIN f \cup {k} |-> IF x = k THEN v ELSE f[x]]

\* LET x == v IN F(x), with v evaluated once
Eager(v, F(_)) == CHOOSE r \in {F(x) : x \in {v}} : TRUE

Abs(x) == IF x < 0 THEN -x ELSE x

Max(a, b) == IF a > b THEN a ELSE b

\* the nodes of S in the stable (id) order of the node list
SortedSeq(S) ==
  SelectSeq([i \in 1..Cardinality(Nodes) |-> i - 1], LAMBDA n : n \in S)

SeqToSet(s) == {s[i] : i \in 1..Len(s)}

\* ------------------------------------------------- Node / radio energy model
is_alive(e, n) == n = Sink \/ e[n] > 0

\* every debit clamps at zero; an operation on a dead node is a no-op
Debit(e, n, cost) ==
  IF n = Sink \/ e[n] = 0 THEN e
  ELSE [e EXCEPT ![n] = Max(0, e[n] - cost)]

TxCost(size) == size
RxCost(size) == size
AggCost(size) == size \div AggRateDen

singlecast(e, src, size, dst) ==
  IF ~is_alive(e, src) THEN e
  ELSE Debit(Debit(e, src, TxCost(size)), dst, RxCost(size))

recv_broadcast(e, n, size) == Debit(e, n, RxCost(size))

\* the sender pays once, whatever the fan-out
broadcast(e, n, size, fanout) == Debit(e, n, TxCost(size))

\* aggregation(head, size): charges the head, returns the reduced size
aggregation_energy(e, head, size) == Debit(e, head, AggCost(size))
aggregation_size(size) == (size * AggRateNum) \div AggRateDen

\* ------------------------------------------------------- cluster observers
get_cluster_heads(cl) == SortedSeq(DOMAIN cl)
get_cluster_members(cl, head) == IF head \in DOMAIN cl THEN cl[head] ELSE <<>>
is_cluster_head(cl, n) == n \in DOMAIN cl
alive_non_sinks(e) == {n \in NonSinks : e[n] > 0}

\* --------------------------------------------------- TEEN threshold engine
\* get_parameters_for_node: the first head whose cluster holds the node decides
RECURSIVE FindHead(_, _, _)
FindHead(cl, hs, node) ==
  IF hs = <<>> THEN -1
  ELSE IF node \in SeqToSet(get_cluster_members(cl, Head(hs))) THEN Head(hs)
  ELSE FindHead(cl, Tail(hs), node)

\* variant: the node's own override is looked up, not its head's
ParametersFor_OwnOverride(cl, node) ==
  IF node \in DOMAIN cluster_parameters
  THEN cluster_parameters[node]
  ELSE <<hard_threshold, soft_threshold, count_time>>

\* variant: without an override the values given at construction are used,
\* not the current defaults
ParametersFor_Construction(cl, node) ==
  LET head == FindHead(cl, get_cluster_heads(cl), node)
  IN IF head # -1 /\ head \in DOMAIN cluster_parameters
     THEN cluster_parameters[head]
     ELSE <<HardThreshold0, SoftThreshold0, CountTime0>>

\* variant: a cluster head with an override resolves to its own override
ParametersFor_HeadOwn(cl, node) ==
  LET head == FindHead(cl, get_cluster_heads(cl), node)
  IN IF is_cluster_head(cl, node) /\ node \in DOMAIN cluster_parameters
     THEN cluster_parameters[node]
     ELSE IF head # -1 /\ head \in DOMAIN cluster_parameters
     THEN cluster_parameters[head]
     ELSE <<hard_threshold, soft_threshold, count_time>>

\* get_parameters_for_node under the clustering cl
ParametersFor(cl, node) ==
  LET head == FindHead(cl, get_cluster_heads(cl), node)
  IN IF head # -1 /\ head \in DOMAIN cluster_parameters
     THEN cluster_parameters[head]
     ELSE <<hard_threshold, soft_threshold, count_time>>

get_parameters_for_node(node) == ParametersFor(clusters, node)

\* reading a defaultdict(int): a missing key reads as 0 (and is inserted)
ReadRST(rst, node) == IF node \in DOMAIN rst THEN rst[node] ELSE 0

\* variant: a reading equal to HT is rejected
ShouldTransmitAt_StrictHT(p, lt, rst, node, current_value) ==
  IF current_value <= p[1] THEN [result |-> FALSE, line |-> 124]
  ELSE IF node \notin DOMAIN lt THEN [result |-> TRUE, line |-> 128]
  ELSE IF Abs(current_value - lt[node]) >= p[2] THEN [result |-> TRUE, line |-> 133]
  ELSE IF ReadRST(rst, node) >= p[3] THEN [result |-> TRUE, line |-> 137]
  ELSE [result |-> FALSE, line |-> 139]

\* variant: the never-transmitted test runs before the HT test
ShouldTransmitAt_FirstBeforeHT(p, lt, rst, node, current_value) ==
  IF node \notin DOMAIN lt THEN [result |-> TRUE, line |-> 128]
  ELSE IF current_value < p[1] THEN [result |-> FALSE, line |-> 124]
  ELSE IF Abs(current_value - lt[node]) >= p[2] THEN [result |-> TRUE, line |-> 133]
  ELSE IF ReadRST(rst, node) >= p[3] THEN [result |-> TRUE, line |-> 137]
  ELSE [result |-> FALSE, line |-> 139]

\* variant: a change equal to ST does not trigger
ShouldTransmitAt_StrictST(p, lt, rst, node, current_value) ==
  IF current_value < p[1] THEN [result |-> FALSE, line |-> 124]
  ELSE IF node \notin DOMAIN lt THEN [result |-> TRUE, line |-> 128]
  ELSE IF Abs(current_value - lt[node]) > p[2] THEN [result |-> TRUE, line |-> 133]
  ELSE IF ReadRST(rst, node) >= p[3] THEN [result |-> TRUE, line |-> 137]
  ELSE [result |-> FALSE, line |-> 139]

\* variant: the periodic update waits one round too long
ShouldTransmitAt_StrictTC(p, lt, rst, node, current_value) ==
  IF current_value < p[1] THEN [result |-> FALSE, line |-> 124]
  ELSE IF node \notin DOMAIN lt THEN [result |-> TRUE, line |-> 128]
  ELSE IF Abs(current_value - lt[node]) >= p[2] THEN [result |-> TRUE, line |-> 133]
  ELSE IF ReadRST(rst, node) > p[3] THEN [result |-> TRUE, line |-> 137]
  ELSE [result |-> FALSE, line |-> 139]

\* variant: the HT test is left out
ShouldTransmitAt_NoHT(p, lt, rst, node, current_value) ==
  IF node \notin DOMAIN lt THEN [result |-> TRUE, line |-> 128]
  ELSE IF Abs(current_value - lt[node]) >= p[2] THEN [result |-> TRUE, line |-> 133]
  ELSE IF ReadRST(rst, node) >= p[3] THEN [result |-> TRUE, line |-> 137]
  ELSE [result |-> FALSE, line |-> 139]

\* variant: the periodic update is due whatever the reading is
ShouldTransmitAt_TCBeforeHT(p, lt, rst, node, current_value) ==
  IF node \in DOMAIN lt /\ ReadRST(rst, node) >= p[3]
  THEN [result |-> TRUE, line |-> 137]
  ELSE IF current_value < p[1] THEN [result |-> FALSE, line |-> 124]
  ELSE IF node \notin DOMAIN lt THEN [result |-> TRUE, line |-> 128]
  ELSE IF Abs(current_value - lt[node]) >= p[2] THEN [result |-> TRUE, line |-> 133]
  ELSE [result |-> FALSE, line |-> 139]

\* should_transmit evaluated on tracking maps lt, rst with parameters p;
\* the result and the line of the code that returned it
ShouldTransmitAt(p, lt, rst, node, current_value) ==
  IF current_value < p[1] THEN [result |-> FALSE, line |-> 124]
  ELSE IF node \notin DOMAIN lt THEN [result |-> TRUE, line |-> 128]
  ELSE IF Abs(current_value - lt[node]) >= p[2] THEN [result |-> TRUE, line |-> 133]
  ELSE IF ReadRST(rst, node) >= p[3] THEN [result |-> TRUE, line |-> 137]
  ELSE [result |-> FALSE, line |-> 139]

should_transmit(node, current_value) ==
  \E p \in {get_parameters_for_node(node)} :
    ShouldTransmitAt(p, last_transmission, rounds_since_transmission,
                     node, current_value).result

\* variant: the counter is read on entry, before any test
ShouldTransmitRST_Eager(p, lt, rst, node, current_value) ==
  IF node \notin DOMAIN rst THEN Put(rst, node, 0) ELSE rst

\* the only write should_transmit can make: the defaultdict read of line 136
\* inserts the key when it is missing
ShouldTransmitRST(p, lt, rst, node, current_value) ==
  IF ShouldTransmitAt(p, lt, rst, node, current_value).line \in {137, 139}
     /\ node \notin DOMAIN rst
  THEN Put(rst, node, 0)
  ELSE rst

\* ---------------------------------------- hierarchical TEEN-aware gathering
\* one event of a phase: what was invoked, and every node's energy after it
\* (for "eval": size is the reading, ok the decision, e the energy before the
\* slot; "tx" / "skip" close the slot)
Event(ev, node, peer, size, ok, e) ==
  [ev |-> ev, node |-> node, peer |-> peer, size |-> size, ok |-> ok, e |-> e,
   line |-> 0]

\* variant: the counter is not reset after a transmission
MemberSlot_NoReset(g, member, head, size) ==
  IF member \notin DOMAIN g.lv THEN [g |-> g, sent |-> FALSE]
  ELSE
    LET current_value == g.lv[member]
        p == ParametersFor(g.cl, member)
        d == ShouldTransmitAt(p, g.lt, g.rst, member, current_value)
        evald == Append(g.log, [Event("eval", member, head, current_value, d.result, g.e)
                                  EXCEPT !.line = d.line])
    IN IF d.result
       THEN LET e1 == singlecast(g.e, member, size, head)
            IN [g |-> [g EXCEPT !.e = e1,
                         !.lt = Put(g.lt, member, current_value),
                         !.log = Append(evald, Event("tx", member, head, size, TRUE, e1))],
                sent |-> TRUE]
       ELSE [g |-> [g EXCEPT !.log = Append(evald, Event("skip", member, head, 0, FALSE, g.e))],
             sent |-> FALSE]

\* variant: a transmission is not recorded in last_transmission
MemberSlot_NoRecord(g, member, head, size) ==
  IF member \notin DOMAIN g.lv THEN [g |-> g, sent |-> FALSE]
  ELSE
    LET current_value == g.lv[member]
        p == ParametersFor(g.cl, member)
        d == ShouldTransmitAt(p, g.lt, g.rst, member, current_value)
        rst1 == ShouldTransmitRST(p, g.lt, g.rst, member, current_value)
        evald == Append(g.log, [Event("eval", member, head, current_value, d.result, g.e)
                                  EXCEPT !.line = d.line])
    IN IF d.result
       THEN LET e1 == singlecast(g.e, member, size, head)
            IN [g |-> [g EXCEPT !.e = e1,
                         !.rst = Put(rst1, member, 0),
                         !.log = Append(evald, Event("tx", member, head, size, TRUE, e1))],
                sent |-> TRUE]
       ELSE [g |-> [g EXCEPT !.rst = rst1,
                         !.log = Append(evald, Event("skip", member, head, 0, FALSE, g.e))],
             sent |-> FALSE]

\* the slot of a regular cluster member (lines 280-292);
\* g = [e, cl, lv, lt, rst, log]; returns [g, sent]
MemberSlot(g, member, head, size) ==
  IF member \notin DOMAIN g.lv THEN [g |-> g, sent |-> FALSE]
  ELSE
    LET current_value == g.lv[member]
        p == ParametersFor(g.cl, member)
        d == ShouldTransmitAt(p, g.lt, g.rst, member, current_value)
        rst1 == ShouldTransmitRST(p, g.lt, g.rst, member, current_value)
        evald == Append(g.log, [Event("eval", member, head, current_value, d.result, g.e)
                                  EXCEPT !.line = d.line])
    IN IF d.result
       THEN LET e1 == singlecast(g.e, member, size, head)
            IN [g |-> [g EXCEPT !.e = e1,
                         !.lt = Put(g.lt, member, current_value),
                         !.rst = Put(rst1, member, 0),
                         !.log = Append(evald, Event("tx", member, head, size, TRUE, e1))],
                sent |-> TRUE]
       ELSE [g |-> [g EXCEPT !.rst = rst1,
                         !.log = Append(evald, Event("skip", member, head, 0, FALSE, g.e))],
             sent |-> FALSE]

\* variant: the loop visits dead members too
Skipped_Never(e, member) == FALSE

\* lines 269-270: a member that is not alive is passed over
Skipped(e, member) == ~is_alive(e, member)

RECURSIVE recursive_gathering_with_teen(_, _, _), GatherLoop(_, _, _, _)

\* the member loop (lines 268-292); acc = [g, size_agg, size_not_agg, has_any_data]
GatherLoop(head, size, members, acc0) ==
  Eager(acc0, LAMBDA acc :
  IF members = <<>> THEN acc
  ELSE
    LET member == Head(members)
        rest == Tail(members)
    IN IF Skipped(acc.g.e, member) THEN GatherLoop(head, size, rest, acc)
       ELSE IF is_cluster_head(acc.g.cl, member)
       THEN Eager(recursive_gathering_with_teen(member, size, acc.g), LAMBDA sub :
               IF sub.has_data
               THEN LET e1 == singlecast(sub.g.e, member, sub.size, head)
                        g1 == [sub.g EXCEPT !.e = e1,
                                 !.log = Append(@, Event("fwd", member, head, sub.size, TRUE, e1))]
                    IN GatherLoop(head, size, rest,
                         [g |-> g1, size_agg |-> acc.size_agg + sub.size,
                          size_not_agg |-> acc.size_not_agg, has_any_data |-> TRUE])
               ELSE GatherLoop(head, size, rest, [acc EXCEPT !.g = sub.g]))
       ELSE Eager(MemberSlot(acc.g, member, head, size), LAMBDA r :
               GatherLoop(head, size, rest,
                 [g |-> r.g, size_agg |-> acc.size_agg,
                  size_not_agg |-> IF r.sent THEN acc.size_not_agg + size
                                   ELSE acc.size_not_agg,
                  has_any_data |-> acc.has_any_data \/ r.sent])))

\* variant: a head starts without a payload of its own
recursive_gathering_with_teen_NoOwnPayload(head, size, g) ==
  Eager(GatherLoop(head, size, get_cluster_members(g.cl, head),
               [g |-> g, size_agg |-> 0,
                size_not_agg |-> 0,
                has_any_data |-> FALSE]), LAMBDA acc :
  IF acc.has_any_data \/ acc.size_not_agg > 0
     THEN LET e1 == aggregation_energy(acc.g.e, head, acc.size_not_agg)
              aggregated == aggregation_size(acc.size_not_agg) + acc.size_agg
          IN [g |-> [acc.g EXCEPT !.e = e1,
                       !.log = Append(Append(@,
                                 Event("agg", head, head, acc.size_not_agg, TRUE, e1)),
                                 Event("ret", head, head, aggregated, TRUE, e1))],
              size |-> aggregated, has_data |-> TRUE]
     ELSE [g |-> [acc.g EXCEPT !.log = Append(@, Event("ret", head, head, 0, FALSE, acc.g.e))],
           size |-> 0, has_data |-> FALSE])

\* lines 254-299; returns [g, size, has_data]
recursive_gathering_with_teen(head, size, g) ==
  Eager(GatherLoop(head, size, get_cluster_members(g.cl, head),
               [g |-> g, size_agg |-> 0,
                size_not_agg |-> IF head # Sink THEN size ELSE 0,
                has_any_data |-> FALSE]), LAMBDA acc :
  IF acc.has_any_data \/ acc.size_not_agg > 0
     THEN LET e1 == aggregation_energy(acc.g.e, head, acc.size_not_agg)
              aggregated == aggregation_size(acc.size_not_agg) + acc.size_agg
          IN [g |-> [acc.g EXCEPT !.e = e1,
                       !.log = Append(Append(@,
                                 Event("agg", head, head, acc.size_not_agg, TRUE, e1)),
                                 Event("ret", head, head, aggregated, TRUE, e1))],
              size |-> aggregated, has_data |-> TRUE]
     ELSE [g |-> [acc.g EXCEPT !.log = Append(@, Event("ret", head, head, 0, FALSE, acc.g.e))],
           size |-> 0, has_data |-> FALSE])

\* variant: the tree is gathered twice in one round
SteadyState_Twice(g, vals) ==
  IF DOMAIN g.cl = {} THEN g
  ELSE
    LET alive == alive_non_sinks(g.e)
        sensed == [g EXCEPT
                     !.lv = [n \in DOMAIN g.lv \cup alive |->
                               IF n \in alive THEN vals[n] ELSE g.lv[n]],
                     !.rst = [n \in DOMAIN g.rst \cup alive |->
                               IF n \in alive THEN ReadRST(g.rst, n) + 1 ELSE g.rst[n]]]
    IN recursive_gathering_with_teen(Sink, SizeData,
         recursive_gathering_with_teen(Sink, SizeData, sensed).g).g

\* variant: sensing leaves the round counters alone
SteadyState_NoCount(g, vals) ==
  IF DOMAIN g.cl = {} THEN g
  ELSE
    LET alive == alive_non_sinks(g.e)
        sensed == [g EXCEPT
                     !.lv = [n \in DOMAIN g.lv \cup alive |->
                               IF n \in alive THEN vals[n] ELSE g.lv[n]]]
    IN recursive_gathering_with_teen(Sink, SizeData, sensed).g

\* variant: the tree is gathered before the nodes sense
SteadyState_SenseLate(g, vals) ==
  IF DOMAIN g.cl = {} THEN g
  ELSE
    LET alive == alive_non_sinks(g.e)
        counted == [g EXCEPT
                     !.rst = [n \in DOMAIN g.rst \cup alive |->
                               IF n \in alive THEN ReadRST(g.rst, n) + 1 ELSE g.rst[n]]]
        gathered == recursive_gathering_with_teen(Sink, SizeData, counted).g
    IN [gathered EXCEPT
          !.lv = [n \in DOMAIN g.lv \cup alive |->
                    IF n \in alive THEN vals[n] ELSE g.lv[n]]]

\* steady_state_phase on g with the generator's values vals (lines 232-252)
SteadyState(g, vals) ==
  IF DOMAIN g.cl = {} THEN g
  ELSE
    LET alive == alive_non_sinks(g.e)
        sensed == [g EXCEPT
                     !.lv = [n \in DOMAIN g.lv \cup alive |->
                               IF n \in alive THEN vals[n] ELSE g.lv[n]],
                     !.rst = [n \in DOMAIN g.rst \cup alive |->
                               IF n \in alive THEN ReadRST(g.rst, n) + 1 ELSE g.rst[n]]]
    IN recursive_gathering_with_teen(Sink, SizeData, sensed).g

\* ------------------------------------------------------------- setup phase
\* LEACH self-election: any non-empty set of alive nodes may promote itself
HeadSets(alive) == {H \in SUBSET alive : H # {}}

Dist(a, b) == Abs(Position[a] - Position[b])

\* the nearest node of S to n, ties broken by the stable (id) order
Nearest(n, S) ==
  CHOOSE h \in S : \A k \in S : Dist(n, h) < Dist(n, k) \/ (Dist(n, h) = Dist(n, k) /\ h <= k)

\* Prim: attach the nearest not-yet-attached head to the tree, sink first
RECURSIVE PrimTree(_, _, _)
PrimTree(tree, left, parent) ==
  IF left = {} THEN parent
  ELSE
    LET h == CHOOSE x \in left : \A y \in left :
               \/ Dist(x, Nearest(x, tree)) < Dist(y, Nearest(y, tree))
               \/ (Dist(x, Nearest(x, tree)) = Dist(y, Nearest(y, tree)) /\ x <= y)
    IN PrimTree(tree \cup {h}, left \ {h}, Put(parent, h, Nearest(h, tree)))

\* the clusters of one setup: every other alive node joins its nearest head,
\* every head is a member of its parent in the Prim tree
Clustering(alive, H) ==
  LET parent == PrimTree({Sink}, H, EmptyMap)
      up(n) == IF n \in H THEN parent[n] ELSE Nearest(n, H)
  IN [h \in H \cup {Sink} |-> SortedSeq({n \in alive : up(n) = h})]

Clusterings(alive) ==
  IF alive = {} THEN {EmptyMap}
  ELSE {Clustering(alive, H) : H \in HeadSets(alive)}

\* the member loop of broadcast_teen_parameters (lines 159-161)
RECURSIVE RecvLoop(_, _)
RecvLoop(e, members) ==
  IF members = <<>> THEN e
  ELSE IF is_alive(e, Head(members))
       THEN RecvLoop(recv_broadcast(e, Head(members), SizeControl), Tail(members))
       ELSE RecvLoop(e, Tail(members))

\* the parameters a head sends: its override or the globals (lines 151-155)
Announced(cluster_head) ==
  IF cluster_head \in DOMAIN cluster_parameters
  THEN cluster_parameters[cluster_head]
  ELSE <<hard_threshold, soft_threshold, count_time>>

\* variant: the head pays the broadcast once per member
broadcast_teen_parameters_PerMember(s, cluster_head) ==
  LET members == get_cluster_members(s.cl, cluster_head)
      e1 == RecvLoop(s.e, members)
      e2 == Debit(e1, cluster_head, TxCost(SizeControl) * Len(members))
  IN IF members = <<>> THEN s
     ELSE [s EXCEPT !.e = e2,
                    !.pb = Put(s.pb, cluster_head, TRUE),
          !.an = Put(s.an, cluster_head, Announced(cluster_head)),
                    !.log = Append(@, Event("bcast", cluster_head, cluster_head,
                                            SizeControl, TRUE, e2))]

\* variant: a head without members broadcasts too
broadcast_teen_parameters_NoGuard(s, cluster_head) ==
  LET members == get_cluster_members(s.cl, cluster_head)
      e2 == broadcast(RecvLoop(s.e, members), cluster_head, SizeControl, Len(members))
  IN [s EXCEPT !.e = e2,
               !.pb = Put(s.pb, cluster_head, TRUE),
          !.an = Put(s.an, cluster_head, Announced(cluster_head)),
               !.log = Append(@, Event("bcast", cluster_head, cluster_head,
                                       SizeControl, TRUE, e2))]

\* broadcast_teen_parameters (lines 141-165); s = [e, cl, pb, log]
broadcast_teen_parameters(s, cluster_head) ==
  LET members == get_cluster_members(s.cl, cluster_head)
      e1 == RecvLoop(s.e, members)
      e2 == broadcast(e1, cluster_head, SizeControl, Len(members))
  IN IF members = <<>> THEN s
     ELSE [s EXCEPT !.e = e2,
                    !.pb = Put(s.pb, cluster_head, TRUE),
          !.an = Put(s.an, cluster_head, Announced(cluster_head)),
                    !.log = Append(@, Event("bcast", cluster_head, cluster_head,
                                            SizeControl, TRUE, e2))]

\* the call of line 230, recorded with whether the head's flag was set
Called(s, head) ==
  [s EXCEPT !.log = Append(@, Event("call", head, head, 0, head \in DOMAIN s.pb, s.e))]

RECURSIVE BroadcastLoop(_, _), BroadcastLoop_OnlyUnflagged(_, _)

\* variant: a head whose flag is set is passed over
BroadcastLoop_OnlyUnflagged(s, hs) ==
  IF hs = <<>> THEN s
  ELSE LET head == Head(hs)
       IN IF head # Sink /\ is_alive(s.e, head) /\ head \notin DOMAIN s.pb
          THEN BroadcastLoop(broadcast_teen_parameters(Called(s, head), head), Tail(hs))
          ELSE BroadcastLoop(s, Tail(hs))

\* the loop of set_up_phase over the heads (lines 228-230)
BroadcastLoop(s, hs) ==
  IF hs = <<>> THEN s
  ELSE LET head == Head(hs)
       IN IF head # Sink /\ is_alive(s.e, head)
          THEN BroadcastLoop(broadcast_teen_parameters(Called(s, head), head), Tail(hs))
          ELSE BroadcastLoop(s, Tail(hs))

\* set_up_phase with the clustering cl chosen by LEACH (lines 217-230)
SetUp(e, pb, cl) ==
  BroadcastLoop([e |-> e, cl |-> cl, pb |-> pb, an |-> announced, log |-> <<>>],
                get_cluster_heads(cl))

\* ------------------------------------------------------------------ state
\* what the driver did last: the operation, its arguments and its result
Op(op, node, value, result) ==
  [op |-> op, node |-> node, value |-> value, result |-> result]

Init ==
  /\ energy = [n \in NonSinks |-> EMax]
  /\ clusters = EmptyMap
  /\ round = 0
  /\ hard_threshold = HardThreshold0
  /\ soft_threshold = SoftThreshold0
  /\ count_time = CountTime0
  /\ cluster_parameters = EmptyMap
  /\ last_values = EmptyMap
  /\ last_transmission = EmptyMap
  /\ rounds_since_transmission = EmptyMap
  /\ parameters_broadcasted = EmptyMap
  /\ query_pending = FALSE
  /\ lastOp = [op |-> "init", node |-> Sink, value |-> 0, result |-> FALSE]
  /\ log = <<>>
  /\ ticks = 0
  /\ calls = 0
  /\ announced = EmptyMap

\* the state the phases work on
Current ==
  [e |-> energy, cl |-> clusters, lv |-> last_values, lt |-> last_transmission,
   rst |-> rounds_since_transmission, log |-> <<>>]

\* the alive nodes whose reading is looked at: the plain members
PlainMembers(cl, e) == {n \in alive_non_sinks(e) : ~is_cluster_head(cl, n)}

RSTBelowCap == \A n \in DOMAIN rounds_since_transmission :
                 rounds_since_transmission[n] < MaxRST

\* ------------------------------------------------------------- operations
\* a direct call of should_transmit by the driver
CallShouldTransmit ==
  \E node \in NonSinks, v \in Values :
    /\ ticks < MaxTicks /\ calls < MaxCalls
    /\ ticks' = ticks + 1 /\ calls' = calls + 1
    /\ lastOp' = Op("should_transmit", node, v, should_transmit(node, v))
    /\ rounds_since_transmission' =
         ShouldTransmitRST(get_parameters_for_node(node), last_transmission,
                           rounds_since_transmission, node, v)
    /\ UNCHANGED announced
    /\ UNCHANGED <<energy, clusters, round, hard_threshold, soft_threshold,
                   count_time, cluster_parameters, last_values,
                   last_transmission, parameters_broadcasted, query_pending, log>>

\* variant: every head must broadcast again
DropFlag_All(pb, cluster_head) == EmptyMap

\* variant: the head's flag survives a new override
DropFlag_Keep(pb, cluster_head) == pb

\* lines 185-186: the head must broadcast again
DropFlag(pb, cluster_head) == [h \in DOMAIN pb \ {cluster_head} |-> pb[h]]

\* variant: the triple is written to the global defaults
set_cluster_parameters_Global ==
  \E cluster_head \in Nodes, p \in Overrides :
    /\ ticks < MaxTicks /\ calls < MaxCalls
    /\ ticks' = ticks + 1 /\ calls' = calls + 1
    /\ hard_threshold' = p[1] /\ soft_threshold' = p[2] /\ count_time' = p[3]
    /\ parameters_broadcasted' = DropFlag(parameters_broadcasted, cluster_head)
    /\ lastOp' = [op |-> "set_cluster_parameters", node |-> cluster_head,
                  value |-> 0,
                  result |-> cluster_head \in DOMAIN parameters_broadcasted,
                  args |-> p]
    /\ UNCHANGED announced
    /\ UNCHANGED <<energy, clusters, round, cluster_parameters, last_values,
                   last_transmission, rounds_since_transmission, query_pending,
                   log>>

set_cluster_parameters ==
  \E cluster_head \in Nodes, p \in Overrides :
    /\ ticks < MaxTicks /\ calls < MaxCalls
    /\ ticks' = ticks + 1 /\ calls' = calls + 1
    /\ cluster_parameters' = Put(cluster_parameters, cluster_head, <<p[1], p[2], p[3]>>)
    /\ parameters_broadcasted' = DropFlag(parameters_broadcasted, cluster_head)
    /\ lastOp' = [op |-> "set_cluster_parameters", node |-> cluster_head,
                  value |-> 0,
                  result |-> cluster_head \in DOMAIN parameters_broadcasted,
                  args |-> p]
    /\ UNCHANGED announced
    /\ UNCHANGED <<energy, clusters, round, hard_threshold, soft_threshold,
                   count_time, last_values, last_transmission,
                   rounds_since_transmission, query_pending, log>>

\* variant: the flag of a head with an override of its own survives a query
ClearFlags_OverriddenKept(pb) ==
  [h \in DOMAIN pb \cap DOMAIN cluster_parameters |-> pb[h]]

\* variant: the flags survive the query
ClearFlags_Keep(pb) == pb

\* line 210: parameters_broadcasted.clear()
ClearFlags(pb) == EmptyMap

\* variant: the query is charged to every alive node, not to the heads only
QueryLoop_AllNodes(e, hs) == RecvLoop(e, SortedSeq(alive_non_sinks(e)))

\* the sink's query reaches every alive non-sink head (lines 212-215)
RECURSIVE QueryLoop(_, _)
QueryLoop(e, hs) ==
  IF hs = <<>> THEN e
  ELSE IF Head(hs) # Sink /\ is_alive(e, Head(hs))
       THEN QueryLoop(recv_broadcast(e, Head(hs), SizeControl), Tail(hs))
       ELSE QueryLoop(e, Tail(hs))

\* variant: an argument is tested for truth, so 0 counts as omitted
Supplied_Truthy(arg) == arg # NoArg /\ arg # 0

\* lines 202, 204, 206: `is not None`
Supplied(arg) == arg # NoArg

\* variant: the query drops the per-cluster overrides
QueryOverrides_Clear(cp) == EmptyMap

\* the query holds no write to cluster_parameters (lines 202-215)
QueryOverrides(cp) == cp

\* the argument triples the sink's query is issued with (an argument left
\* out is NoArg): none, the soft threshold alone, the other two, all three
QueryArgs ==
  {<<NoArg, NoArg, NoArg>>, <<NoArg, QueryST, NoArg>>,
   <<QueryHT, NoArg, QueryTC>>, <<QueryHT, QueryST, QueryTC>>}

update_parameters_from_query ==
  \E q \in QueryArgs : \E ht \in {q[1]}, st \in {q[2]}, tc \in {q[3]} :
    /\ ticks < MaxTicks /\ calls < MaxCalls
    /\ ticks' = ticks + 1 /\ calls' = calls + 1
    /\ hard_threshold' = IF Supplied(ht) THEN ht ELSE hard_threshold
    /\ soft_threshold' = IF Supplied(st) THEN st ELSE soft_threshold
    /\ count_time' = IF Supplied(tc) THEN tc ELSE count_time
    /\ cluster_parameters' = QueryOverrides(cluster_parameters)
    /\ parameters_broadcasted' = ClearFlags(parameters_broadcasted)
    /\ energy' = QueryLoop(energy, get_cluster_heads(clusters))
    /\ query_pending' = TRUE
    /\ lastOp' = [op |-> "update_parameters_from_query", node |-> Sink,
                  value |-> Cardinality(DOMAIN parameters_broadcasted),
                  result |-> FALSE, args |-> <<ht, st, tc>>]
    /\ log' = <<Event("query", Sink, Sink, SizeControl, TRUE, energy)>>
    /\ UNCHANGED announced
    /\ UNCHANGED <<clusters, round, last_values,
                   last_transmission, rounds_since_transmission>>

\* variant: the clusters of the previous round are kept
set_up_phase_NoRecluster ==
  /\ ticks < MaxTicks
  /\ \E cl \in {clusters} :
       \E s \in {SetUp(energy, parameters_broadcasted, cl)} :
         /\ ticks' = ticks + 1
         /\ clusters' = cl
         /\ energy' = s.e
         /\ parameters_broadcasted' = s.pb
         /\ log' = s.log
         /\ query_pending' = FALSE
         /\ lastOp' = Op("set_up_phase", Sink, 0, query_pending) @@ [e0 |-> energy]
         /\ announced' = s.an
         /\ UNCHANGED <<round, hard_threshold, soft_threshold, count_time,
                        cluster_parameters, last_values, last_transmission,
                        rounds_since_transmission, calls>>

\* variant: re-clustering keeps only the overrides of the newly elected heads
set_up_phase_DropOverrides ==
  /\ ticks < MaxTicks
  /\ \E cl \in Clusterings(alive_non_sinks(energy)) :
       \E s \in {SetUp(energy, parameters_broadcasted, cl)} :
         /\ ticks' = ticks + 1
         /\ clusters' = cl
         /\ energy' = s.e
         /\ parameters_broadcasted' = s.pb
         /\ log' = s.log
         /\ query_pending' = FALSE
         /\ lastOp' = Op("set_up_phase", Sink, 0, query_pending) @@ [e0 |-> energy]
         /\ announced' = s.an
         /\ cluster_parameters' = [h \in DOMAIN cluster_parameters \cap DOMAIN cl |->
                                    cluster_parameters[h]]
         /\ UNCHANGED <<round, hard_threshold, soft_threshold, count_time,
                        last_values, last_transmission,
                        rounds_since_transmission, calls>>

set_up_phase ==
  /\ ticks < MaxTicks
  /\ \E cl \in Clusterings(alive_non_sinks(energy)) :
       \E s \in {SetUp(energy, parameters_broadcasted, cl)} :
         /\ ticks' = ticks + 1
         /\ clusters' = cl
         /\ energy' = s.e
         /\ parameters_broadcasted' = s.pb
         /\ log' = s.log
         /\ query_pending' = FALSE
         /\ lastOp' = Op("set_up_phase", Sink, 0, query_pending) @@ [e0 |-> energy]
         /\ announced' = s.an
         /\ UNCHANGED <<round, hard_threshold, soft_threshold, count_time,
                        cluster_parameters, last_values, last_transmission,
                        rounds_since_transmission, calls>>

\* the generator's readings of one round; only a plain member's reading is
\* ever looked at, the others are held at the lowest value
Readings(cl, e) ==
  {vals \in [NonSinks -> Values] :
     \A n \in NonSinks : n \notin PlainMembers(cl, e) => vals[n] = 1}

steady_state_phase ==
  /\ ticks < MaxTicks
  /\ RSTBelowCap
  /\ \E vals \in Readings(clusters, energy) :
       \E g \in {SteadyState(Current, vals)} :
         /\ ticks' = ticks + 1
         /\ energy' = g.e
         /\ last_values' = g.lv
         /\ last_transmission' = g.lt
         /\ rounds_since_transmission' = g.rst
         /\ log' = g.log
         /\ lastOp' = Op("steady_state_phase", Sink, 0, FALSE)
                        @@ [e0 |-> energy, vals |-> vals]
         /\ UNCHANGED announced
         /\ UNCHANGED <<clusters, round, hard_threshold, soft_threshold, count_time,
                        cluster_parameters, parameters_broadcasted, query_pending,
                        calls>>

\* one round: set_up_phase, steady_state_phase, round += 1
Round ==
  \E cl \in Clusterings(alive_non_sinks(energy)) :
    \E s \in {SetUp(energy, parameters_broadcasted, cl)} :
      \E vals \in Readings(cl, s.e) :
        \E g \in {SteadyState([Current EXCEPT !.e = s.e, !.cl = cl, !.log = s.log],
                              vals)} :
          /\ clusters' = cl
          /\ parameters_broadcasted' = s.pb
          /\ energy' = g.e
          /\ last_values' = g.lv
          /\ last_transmission' = g.lt
          /\ rounds_since_transmission' = g.rst
          /\ log' = g.log
          /\ round' = round + 1
          /\ query_pending' = FALSE
          /\ lastOp' = Op("execute", Sink, 0, query_pending)
                         @@ [e0 |-> energy, vals |-> vals]
          /\ announced' = s.an
          /\ UNCHANGED <<hard_threshold, soft_threshold, count_time,
                         cluster_parameters, calls>>

execute ==
  /\ ticks < MaxTicks
  /\ RSTBelowCap
  /\ ticks' = ticks + 1
  /\ Round

Next ==
  \/ CallShouldTransmit
  \/ set_cluster_parameters
  \/ update_parameters_from_query
  \/ set_up_phase
  \/ steady_state_phase
  \/ execute

Spec == Init /\ [][Next]_vars

\* ------------------------------------------------- the simulation driver
\* initial energy of the lifetime runs, and the rounds such a run can take:
\* every round with an alive node costs some node at least one unit
LiveEMax == 8
MaxRounds == Cardinality(NonSinks) * LiveEMax

\* thresholds of the lifetime runs; with the highest one every reading
\* stays below HT
LiveHT == {HardThreshold0, 3}

LiveInit ==
  /\ energy = [n \in NonSinks |-> LiveEMax]
  /\ clusters = EmptyMap
  /\ round = 0
  /\ hard_threshold \in LiveHT
  /\ soft_threshold = SoftThreshold0
  /\ count_time \in {1, CountTime0}
  /\ cluster_parameters = EmptyMap
  /\ last_values = EmptyMap
  /\ last_transmission = EmptyMap
  /\ rounds_since_transmission = EmptyMap
  /\ parameters_broadcasted = EmptyMap
  /\ query_pending = FALSE
  /\ lastOp = [op |-> "init", node |-> Sink, value |-> 0, result |-> FALSE]
  /\ log = <<>>
  /\ ticks = 0
  /\ calls = 0
  /\ announced = EmptyMap

\* the loop with the condition "while no node has died": it leaves the
\* survivors of the first death alive for ever
run_simulation_UntilFirstDeath ==
  /\ alive_non_sinks(energy) = NonSinks
  /\ round < MaxRounds
  /\ Round
  /\ UNCHANGED ticks

\* one iteration of the driver's loop: while nodes are alive, execute()
run_simulation ==
  /\ alive_non_sinks(energy) # {}
  /\ round < MaxRounds
  /\ Round
  /\ UNCHANGED ticks

LiveNext == run_simulation

LiveSpec == LiveInit /\ [][LiveNext]_vars /\ WF_vars(run_simulation)

\* ------------------------------------------------------------ construction
\* arguments a caller may construct the protocol with
CtorNCluster == {-1, 0, 1, 2}
CtorHT == {-1, 0, HardThreshold0}
CtorST == {-1, 0, SoftThreshold0}
CtorTC == {-1, 0, CountTime0}

\* LEACH.__init__ (line 41): a cluster count that is not positive is refused
LEACHAccepts(n_cluster) == n_cluster > 0

\* before the constructor has run
ConstructInit ==
  /\ Init!1 /\ Init!2 /\ Init!3 /\ Init!4 /\ Init!5 /\ Init!6 /\ Init!7
  /\ Init!8 /\ Init!9 /\ Init!10 /\ Init!11 /\ Init!12
  /\ lastOp = [op |-> "new", node |-> Sink, value |-> 0, result |-> FALSE]
  /\ log = <<>>
  /\ ticks = 0
  /\ calls = 0
  /\ announced = EmptyMap

\* APTEEN.__init__ (lines 23-72): the parent's constructor, then the three
\* thresholds are stored as given (lines 51-53) and the maps start empty
APTEEN_init ==
  \E n_cluster \in CtorNCluster, ht \in CtorHT, st \in CtorST, tc \in CtorTC :
    /\ lastOp.op = "new"
    /\ lastOp' = [op |-> "__init__", node |-> Sink, value |-> n_cluster,
                  result |-> LEACHAccepts(n_cluster), args |-> <<ht, st, tc>>]
    /\ IF LEACHAccepts(n_cluster)
       THEN /\ hard_threshold' = ht
            /\ soft_threshold' = st
            /\ count_time' = tc
       ELSE UNCHANGED <<hard_threshold, soft_threshold, count_time>>
    /\ UNCHANGED announced
    /\ UNCHANGED <<energy, clusters, round, cluster_parameters, last_values,
                   last_transmission, rounds_since_transmission,
                   parameters_broadcasted, query_pending, log, ticks, calls>>

\* a caller uses the instance the constructor returned
UseInstance ==
  /\ lastOp.op = "__init__" /\ lastOp.result
  /\ CallShouldTransmit

ConstructNext == APTEEN_init \/ UseInstance

ConstructSpec == ConstructInit /\ [][ConstructNext]_vars

\* ============================================================== properties
HeadOf(cl, n) == FindHead(cl, get_cluster_heads(cl), n)

\* n is an alive regular member of some cluster
PlainMember(n) ==
  /\ n \in NonSinks /\ energy[n] > 0
  /\ ~is_cluster_head(clusters, n)
  /\ HeadOf(clusters, n) # -1

\* every head from h up to the sink is alive
RECURSIVE RouteAlive(_, _)
RouteAlive(h, k) ==
  IF h = Sink THEN TRUE
  ELSE IF h = -1 \/ k = 0 THEN FALSE
  ELSE energy[h] > 0 /\ RouteAlive(HeadOf(clusters, h), k - 1)

Globals == <<hard_threshold, soft_threshold, count_time>>

GatherStep(op) == lastOp'.op = op /\ ticks' = ticks + 1

TxBy(lg, m) == {j \in DOMAIN lg : lg[j].ev = "tx" /\ lg[j].node = m}

\* C1: should_transmit(n, v) is true exactly when v >= HT and (n never
\* transmitted, or |v - last_transmission[n]| >= ST, or
\* rounds_since_transmission[n] >= TC), with (HT, ST, TC) the parameters
\* resolved for n; below HT it is false whatever else holds.
C1_ShouldTransmitDecision ==
  \A n \in Nodes : \A p \in {get_parameters_for_node(n)} : \A v \in Values :
    should_transmit(n, v) <=>
      /\ v >= p[1]
      /\ \/ n \notin DOMAIN last_transmission
         \/ Abs(v - last_transmission[n]) >= p[2]
         \/ ReadRST(rounds_since_transmission, n) >= p[3]

\* a reading below HT is refused although the change reaches ST and TC ran out
C1_Witness ==
  \E n \in DOMAIN last_transmission, v \in Values :
    LET p == get_parameters_for_node(n)
    IN /\ v < p[1]
       /\ Abs(v - last_transmission[n]) >= p[2]
       /\ ReadRST(rounds_since_transmission, n) >= p[3]
       /\ ~should_transmit(n, v)

\* C2 (as claimed): in a steady-state round, an alive plain member under an
\* alive head that transmitted before and reads the value it last transmitted
\* (>= HT, ST > 0) transmits exactly when its rounds_since_transmission
\* reaches TC in that round.
C2_TCForce_Claimed ==
  [][\A n \in NonSinks :
       LET p == get_parameters_for_node(n)
           h == HeadOf(clusters, n)
       IN (/\ GatherStep("steady_state_phase")
           /\ PlainMember(n) /\ is_alive(energy, h)
           /\ n \in DOMAIN last_transmission
           /\ last_values'[n] = last_transmission[n]
           /\ last_transmission[n] >= p[1] /\ p[2] > 0)
          => (rounds_since_transmission'[n] = 0
                <=> ReadRST(rounds_since_transmission, n) + 1 >= p[3])]_vars

\* C2 (amended): the same, provided every head on the route from the
\* member's head to the sink is alive when the round starts.
C2_TCForce ==
  [][\A n \in NonSinks :
       LET p == get_parameters_for_node(n)
           h == HeadOf(clusters, n)
       IN (/\ GatherStep("steady_state_phase")
           /\ PlainMember(n) /\ RouteAlive(h, Cardinality(NonSinks))
           /\ n \in DOMAIN last_transmission
           /\ last_values'[n] = last_transmission[n]
           /\ last_transmission[n] >= p[1] /\ p[2] > 0)
          => /\ rounds_since_transmission'[n] = 0
                  <=> ReadRST(rounds_since_transmission, n) + 1 >= p[3]
             /\ rounds_since_transmission'[n] # 0
                  => rounds_since_transmission'[n]
                       = ReadRST(rounds_since_transmission, n) + 1]_vars

\* a member sent an unchanged reading because TC > 1 rounds had passed
C2_Witness ==
  /\ lastOp.op = "steady_state_phase"
  /\ \E i \in DOMAIN log :
       /\ log[i].ev = "eval" /\ log[i].ok /\ log[i].line = 137
       /\ get_parameters_for_node(log[i].node)[3] > 1
       /\ log[i + 1].ev = "tx"
       /\ rounds_since_transmission[log[i].node] = 0

\* C3: for a node that never transmitted, should_transmit is false below HT
\* and true at or above HT, whatever ST, TC and the round counter are.
C3_FirstTransmission ==
  \A n \in Nodes \ DOMAIN last_transmission :
    \A p \in {get_parameters_for_node(n)} : \A v \in Values :
      should_transmit(n, v) <=> v >= p[1]

\* a node that never transmitted, past TC, refused below HT and accepted at HT
C3_Witness ==
  \E n \in NonSinks \ DOMAIN last_transmission :
    LET p == get_parameters_for_node(n)
    IN /\ ReadRST(rounds_since_transmission, n) >= p[3]
       /\ p[1] - 1 \in Values /\ ~should_transmit(n, p[1] - 1)
       /\ should_transmit(n, p[1])

\* C4: with a last_transmission entry, value >= HT and the counter below TC,
\* should_transmit is true iff |value - last_transmission| >= ST.
C4_SoftThreshold ==
  \A n \in DOMAIN last_transmission :
    \A p \in {get_parameters_for_node(n)} : \A v \in Values :
      (v >= p[1] /\ ReadRST(rounds_since_transmission, n) < p[3])
        => (should_transmit(n, v) <=> Abs(v - last_transmission[n]) >= p[2])

\* a change exactly equal to ST triggers, no change does not
C4_Witness ==
  \E n \in DOMAIN last_transmission, v \in Values :
    LET p == get_parameters_for_node(n)
    IN /\ v >= p[1] /\ last_transmission[n] >= p[1]
       /\ ReadRST(rounds_since_transmission, n) < p[3]
       /\ Abs(v - last_transmission[n]) = p[2]
       /\ should_transmit(n, v)
       /\ ~should_transmit(n, last_transmission[n])

\* C5: a call of should_transmit changes no tracking map (keys included), no
\* parameter, no broadcast flag and no node's energy.
C5_ShouldTransmitPure ==
  [][GatherStep("should_transmit") =>
       UNCHANGED <<last_values, last_transmission, rounds_since_transmission,
                   cluster_parameters, parameters_broadcasted, hard_threshold,
                   soft_threshold, count_time, energy>>]_vars

\* a call that went as far as reading the round counter (line 136)
C5_Witness ==
  /\ lastOp.op = "should_transmit"
  /\ ShouldTransmitAt(get_parameters_for_node(lastOp.node), last_transmission,
                      rounds_since_transmission, lastOp.node, lastOp.value).line
       \in {137, 139}

\* C6 (as claimed): a non-sink head that received nothing from a member and
\* nothing from a child head returns (0, FALSE), is charged no aggregation
\* and forwards nothing to its parent.
C6_EmptySlotAccounting ==
  \A i \in DOMAIN log :
    (/\ log[i].ev = "ret" /\ log[i].node # Sink
     /\ ~\E j \in DOMAIN log : log[j].ev \in {"tx", "fwd"} /\ log[j].peer = log[i].node)
    => /\ ~log[i].ok /\ log[i].size = 0
       /\ ~\E j \in DOMAIN log :
            log[j].ev \in {"agg", "fwd"} /\ log[j].node = log[i].node

\* C7: a plain member whose should_transmit is true is charged one singlecast
\* of the data size to its head, records the reading in last_transmission and
\* resets its counter; otherwise the slot charges nobody and leaves
\* last_transmission and the (already incremented) counter alone.
C7_PlainSensorSlot ==
  [][(GatherStep("steady_state_phase") \/ GatherStep("execute")) =>
       \A i \in DOMAIN log' :
         log'[i].ev = "eval" =>
           LET m == log'[i].node
               nx == log'[i + 1]
           IN IF log'[i].ok
              THEN /\ nx.ev = "tx" /\ nx.node = m /\ nx.peer = log'[i].peer
                   /\ nx.size = SizeData
                   /\ nx.e = singlecast(log'[i].e, m, SizeData, log'[i].peer)
                   /\ Cardinality(TxBy(log', m)) = 1
                   /\ log'[i].size = last_values'[m]
                   /\ last_transmission'[m] = last_values'[m]
                   /\ rounds_since_transmission'[m] = 0
              ELSE /\ nx.ev = "skip" /\ nx.e = log'[i].e
                   /\ TxBy(log', m) = {}
                   /\ energy'[m] = log'[i].e[m]
                   /\ m \in DOMAIN last_transmission' <=> m \in DOMAIN last_transmission
                   /\ m \in DOMAIN last_transmission
                        => last_transmission'[m] = last_transmission[m]
                   /\ rounds_since_transmission'[m]
                        = ReadRST(rounds_since_transmission, m) + 1]_vars

\* one round with a slot used and a slot left empty
C7_Witness ==
  /\ lastOp.op \in {"steady_state_phase", "execute"}
  /\ \E i, j \in DOMAIN log :
       /\ log[i].ev = "eval" /\ log[i].ok
       /\ log[j].ev = "eval" /\ ~log[j].ok

\* C8: every member of a head with an override resolves to that override,
\* whatever the global defaults are; every other node resolves to the
\* current global defaults.
C8_OverridePrecedence ==
  \A n \in Nodes : \A h \in {HeadOf(clusters, n)} :
    /\ \A k \in DOMAIN clusters :
         n \in SeqToSet(clusters[k]) => h = k
    /\ get_parameters_for_node(n) =
         IF h # -1 /\ h \in DOMAIN cluster_parameters
         THEN cluster_parameters[h] ELSE Globals

\* an override was just set on a head; its member resolves to it, a node of
\* another cluster to the globals
C8_Witness ==
  /\ lastOp.op = "set_cluster_parameters"
  /\ lastOp.node \in DOMAIN clusters
  /\ cluster_parameters[lastOp.node] # Globals
  /\ \E m, n \in NonSinks :
       /\ HeadOf(clusters, m) = lastOp.node
       /\ get_parameters_for_node(m) = cluster_parameters[lastOp.node]
       /\ HeadOf(clusters, n) \notin {-1, lastOp.node}
       /\ get_parameters_for_node(n) = Globals

\* C9: after update_parameters_from_query, parameters_broadcasted is empty.
C9_QueryInvalidation ==
  lastOp.op = "update_parameters_from_query" => DOMAIN parameters_broadcasted = {}

\* a query that found flags set
C9_Witness ==
  /\ lastOp.op = "update_parameters_from_query"
  /\ lastOp.value > 0
  /\ DOMAIN parameters_broadcasted = {}

\* C10 (as claimed): after the first set_up_phase that follows a query, the
\* keys of parameters_broadcasted are exactly the alive non-sink heads.
C10_Repopulation_Claimed ==
  (lastOp.op = "set_up_phase" /\ lastOp.result)
    => DOMAIN parameters_broadcasted
         = {h \in DOMAIN clusters \ {Sink} : energy[h] > 0}

\* C10 (amended): after the first setup that follows a query, every key of
\* parameters_broadcasted is a non-sink head of the new clustering that has
\* at least one member, with value TRUE, and every such head that is still
\* alive has a key.
C10_Repopulation ==
  (lastOp.op \in {"set_up_phase", "execute"} /\ lastOp.result)
    => /\ \A h \in DOMAIN parameters_broadcasted :
            /\ parameters_broadcasted[h] = TRUE
            /\ h \in DOMAIN clusters \ {Sink}
            /\ clusters[h] # <<>>
       /\ \A h \in DOMAIN clusters \ {Sink} :
            (clusters[h] # <<>> /\ energy[h] > 0)
              => h \in DOMAIN parameters_broadcasted

\* a setup after a query: one head with members holds a flag, one head
\* without members holds none
C10_Witness ==
  /\ lastOp.op = "set_up_phase" /\ lastOp.result
  /\ DOMAIN parameters_broadcasted # {}
  /\ \E h \in DOMAIN clusters \ {Sink} :
       clusters[h] = <<>> /\ energy[h] > 0 /\ h \notin DOMAIN parameters_broadcasted

\* C11 (as claimed): after update_parameters_from_query no per-cluster
\* override is left and every node resolves to the new global defaults.
C11_QueryDropsOverrides_Claimed ==
  lastOp.op = "update_parameters_from_query"
    => /\ DOMAIN cluster_parameters = {}
       /\ \A n \in Nodes : get_parameters_for_node(n) = Globals

\* C11 (amended): update_parameters_from_query leaves cluster_parameters as
\* it was; afterwards a node whose head has an override still resolves to
\* that override and every other node to the new global defaults.
C11_QueryKeepsOverrides ==
  [][GatherStep("update_parameters_from_query") =>
       /\ cluster_parameters' = cluster_parameters
       /\ \A n \in Nodes : \A h \in {HeadOf(clusters, n)} :
            get_parameters_for_node(n)' =
              IF h # -1 /\ h \in DOMAIN cluster_parameters
              THEN cluster_parameters[h]
              ELSE <<hard_threshold', soft_threshold', count_time'>>]_vars

\* a query that changed a default while a head with members had an override
C11_Witness ==
  /\ lastOp.op = "update_parameters_from_query"
  /\ Globals # <<HardThreshold0, SoftThreshold0, CountTime0>>
  /\ \E m \in NonSinks : \E h \in {HeadOf(clusters, m)} :
       /\ h # -1 /\ h \in DOMAIN cluster_parameters
       /\ cluster_parameters[h] # Globals
       /\ get_parameters_for_node(m) = cluster_parameters[h]

\* C12: update_parameters_from_query sets exactly the defaults whose argument
\* is supplied (0 included), keeps the others, and changes no entry of
\* last_values, last_transmission, rounds_since_transmission or clusters.
C12_QueryUpdatesSupplied ==
  [][GatherStep("update_parameters_from_query") =>
       /\ hard_threshold' = IF lastOp'.args[1] = NoArg THEN hard_threshold
                            ELSE lastOp'.args[1]
       /\ soft_threshold' = IF lastOp'.args[2] = NoArg THEN soft_threshold
                            ELSE lastOp'.args[2]
       /\ count_time' = IF lastOp'.args[3] = NoArg THEN count_time
                        ELSE lastOp'.args[3]
       /\ UNCHANGED <<last_values, last_transmission,
                      rounds_since_transmission, clusters>>]_vars

\* a query that supplied only soft_threshold = 0, after a round filled the
\* tracking maps
C12_Witness ==
  /\ lastOp.op = "update_parameters_from_query"
  /\ lastOp.args = <<NoArg, 0, NoArg>>
  /\ soft_threshold = 0
  /\ hard_threshold = HardThreshold0 /\ count_time = CountTime0
  /\ DOMAIN last_transmission # {} /\ DOMAIN clusters # {}

\* C13: update_parameters_from_query charges every alive non-sink head of
\* the current clustering one control-message receive cost and charges no
\* dead head and no plain member (the sink has no battery to charge).
C13_QueryCharges ==
  [][GatherStep("update_parameters_from_query") =>
       \A n \in NonSinks :
         energy'[n] =
           IF is_cluster_head(clusters, n) /\ energy[n] > 0
           THEN Max(0, energy[n] - RxCost(SizeControl))
           ELSE energy[n]]_vars

\* a query met an alive head (charged one receive), a dead head and an
\* alive plain member (both left alone)
C13_Witness ==
  /\ lastOp.op = "update_parameters_from_query"
  /\ log[1].ev = "query"
  /\ \E h, d, m \in NonSinks :
       /\ is_cluster_head(clusters, h) /\ log[1].e[h] > 0
       /\ energy[h] = log[1].e[h] - RxCost(SizeControl)
       /\ is_cluster_head(clusters, d) /\ log[1].e[d] = 0 /\ energy[d] = 0
       /\ ~is_cluster_head(clusters, m) /\ log[1].e[m] > 0
       /\ energy[m] = log[1].e[m]

NoOverride(n) ==
  \A h \in {HeadOf(clusters, n)} : h = -1 \/ h \notin DOMAIN cluster_parameters

\* C14: right after update_parameters_from_query every node whose head has
\* no override resolves to the new global defaults; a steady_state_phase run
\* before the next set_up_phase finds no broadcast flag set and still decides
\* every slot of such a node with the new values.
C14_QueryEffectiveImmediately ==
  [][/\ GatherStep("update_parameters_from_query") =>
          \A n \in Nodes :
            NoOverride(n) => get_parameters_for_node(n)'
                               = <<hard_threshold', soft_threshold', count_time'>>
     /\ (GatherStep("steady_state_phase") /\ query_pending) =>
          /\ DOMAIN parameters_broadcasted = {}
          /\ \A i \in DOMAIN log' :
               (log'[i].ev = "eval" /\ NoOverride(log'[i].node)) =>
                 log'[i].ok =
                   ShouldTransmitAt(Globals, last_transmission,
                     [n \in {log'[i].node} |->
                        ReadRST(rounds_since_transmission, n) + 1],
                     log'[i].node, log'[i].size).result]_vars

\* between a query and the next setup a member transmitted a reading that
\* the defaults of the construction would have refused
C14_Witness ==
  /\ lastOp.op = "steady_state_phase" /\ query_pending
  /\ DOMAIN parameters_broadcasted = {}
  /\ hard_threshold < HardThreshold0
  /\ \E i \in DOMAIN log :
       /\ log[i].ev = "eval" /\ log[i].ok
       /\ NoOverride(log[i].node)
       /\ log[i].size >= hard_threshold /\ log[i].size < HardThreshold0

\* C15: set_cluster_parameters(h, HT, ST, TC) sets cluster_parameters[h] to
\* the triple and removes h's broadcast flag if there is one; every other
\* override and flag, the global defaults, the tracking maps and every
\* node's energy stay as they were.
C15_SetClusterParameters ==
  [][GatherStep("set_cluster_parameters") =>
       /\ DOMAIN cluster_parameters' = DOMAIN cluster_parameters \cup {lastOp'.node}
       /\ cluster_parameters'[lastOp'.node] = lastOp'.args
       /\ \A k \in DOMAIN cluster_parameters \ {lastOp'.node} :
            cluster_parameters'[k] = cluster_parameters[k]
       /\ DOMAIN parameters_broadcasted'
            = DOMAIN parameters_broadcasted \ {lastOp'.node}
       /\ \A k \in DOMAIN parameters_broadcasted' :
            parameters_broadcasted'[k] = parameters_broadcasted[k]
       /\ UNCHANGED <<hard_threshold, soft_threshold, count_time, last_values,
                      last_transmission, rounds_since_transmission, energy>>]_vars

\* an override set on a head that held a flag, while another head keeps its
\* flag and another node keeps its override
C15_Witness ==
  /\ lastOp.op = "set_cluster_parameters" /\ lastOp.result
  /\ cluster_parameters[lastOp.node] = lastOp.args
  /\ lastOp.node \notin DOMAIN parameters_broadcasted
  /\ DOMAIN parameters_broadcasted # {}
  /\ DOMAIN cluster_parameters # {lastOp.node}

\* the energies right before event i of the trace lg of a step
EnergyBefore(lg, i) == IF i = 1 THEN energy ELSE lg[i - 1].e

C17_DefaultsOnlyByQuery ==
  [][GatherStep("update_parameters_from_query")
       \/ UNCHANGED <<hard_threshold, soft_threshold, count_time>>]_vars

\* a query changed a default, then an override was set and a round ran, and
\* the changed default is still in place
C17_Witness ==
  /\ lastOp.op = "execute"
  /\ Globals # <<HardThreshold0, SoftThreshold0, CountTime0>>
  /\ DOMAIN cluster_parameters # {}
  /\ DOMAIN parameters_broadcasted # {}
  /\ \E i \in DOMAIN log : log[i].ev = "eval"

EventsOf(lg, ev, n) == {i \in DOMAIN lg : lg[i].ev = ev /\ lg[i].node = n}

\* C18: in one steady_state_phase (alone or inside execute) every node is
\* evaluated in at most one slot and makes at most one data transmission,
\* every head is gathered at most once, and a plain member loses at most the
\* cost of one data transmission.
C18_SlotDiscipline ==
  [][(GatherStep("steady_state_phase") \/ GatherStep("execute")) =>
       /\ \A n \in Nodes :
            /\ Cardinality(EventsOf(log', "eval", n)) <= 1
            /\ Cardinality(EventsOf(log', "tx", n)) <= 1
            /\ Cardinality(EventsOf(log', "ret", n)) <= 1
            /\ EventsOf(log', "tx", n) # {} => EventsOf(log', "eval", n) # {}
       /\ GatherStep("steady_state_phase") =>
            \A m \in NonSinks :
              ~is_cluster_head(clusters, m)
                => energy'[m] >= energy[m] - TxCost(SizeData)]_vars

\* a round that evaluated two members, had one of them transmit, and
\* gathered a head below the sink
C18_Witness ==
  /\ lastOp.op = "steady_state_phase"
  /\ \E m, n \in NonSinks :
       /\ m # n
       /\ EventsOf(log, "eval", m) # {} /\ EventsOf(log, "eval", n) # {}
       /\ Cardinality(EventsOf(log, "tx", m)) = 1
  /\ \E h \in NonSinks : Cardinality(EventsOf(log, "ret", h)) = 1
  /\ Cardinality(EventsOf(log, "ret", Sink)) = 1

\* the per-round count of transmitting nodes the simulation driver reports
transmissions ==
  Cardinality({node \in alive_non_sinks(energy) :
                 /\ node \in DOMAIN last_transmission
                 /\ ReadRST(rounds_since_transmission, node) = 0})

\* C19 (as claimed): at the end of an executed round an alive non-sink node
\* has rounds_since_transmission = 0 iff it transmitted in that round as a
\* plain member, and the count of such nodes is the number of nodes that
\* transmitted in that round.
C19_TransmissionCount ==
  lastOp.op = "execute" =>
    /\ \A n \in alive_non_sinks(energy) :
         ReadRST(rounds_since_transmission, n) = 0 <=> EventsOf(log, "tx", n) # {}
    /\ transmissions
         = Cardinality({n \in NonSinks : EventsOf(log, "tx", n) # {}})

AllMembers(cl) == UNION {SeqToSet(cl[h]) : h \in DOMAIN cl}

\* no node is listed twice, in one cluster or in two
NoDuplicates(cl) ==
  /\ \A h \in DOMAIN cl : \A i, j \in DOMAIN cl[h] : cl[h][i] = cl[h][j] => i = j
  /\ \A h, k \in DOMAIN cl : h # k => SeqToSet(cl[h]) \cap SeqToSet(cl[k]) = {}

\* C21 (as claimed): when set_up_phase returns, the members of all clusters
\* are exactly the alive non-sink nodes, none listed twice, and every
\* cluster head is alive.
C21_ClusteringPartition_Claimed ==
  [][GatherStep("set_up_phase") =>
       /\ AllMembers(clusters') = alive_non_sinks(energy')
       /\ NoDuplicates(clusters')
       /\ \A h \in DOMAIN clusters' : is_alive(energy', h)]_vars

\* C21 (amended): when set_up_phase returns, the members of all clusters are
\* exactly the non-sink nodes that were alive when the phase started, none
\* listed twice, and every cluster head was alive when the phase started; a
\* node of the clustering that is dead when the phase returns paid for a
\* parameter broadcast in it.
C21_ClusteringPartition ==
  [][GatherStep("set_up_phase") =>
       /\ AllMembers(clusters') = alive_non_sinks(energy)
       /\ NoDuplicates(clusters')
       /\ \A h \in DOMAIN clusters' : is_alive(energy, h)
       /\ \A n \in AllMembers(clusters') \ alive_non_sinks(energy') :
            /\ energy'[n] < energy[n]
            /\ \E i \in DOMAIN log' : log'[i].ev = "bcast"
                 /\ (log'[i].node = n \/ HeadOf(clusters', n) = log'[i].node)]_vars

\* a setup over two or more clusters, one of which was formed around a node
\* that an earlier round left alive with less than the initial energy
C21_Witness ==
  /\ lastOp.op = "set_up_phase"
  /\ Cardinality(DOMAIN clusters) >= 3
  /\ AllMembers(clusters) = alive_non_sinks(lastOp.e0)
  /\ \E n \in AllMembers(clusters) : lastOp.e0[n] < EMax - 1
  /\ \E i \in DOMAIN log : log[i].ev = "bcast"

\* C22: a driver that keeps calling execute() while a non-sink node is alive
\* reaches a round after which no non-sink node is alive, whatever the
\* thresholds and the readings are.
C22_Termination == <>(alive_non_sinks(energy) = {})

\* all nodes are dead after a run in which every reading was below HT and no
\* node ever transmitted
C22_Witness ==
  /\ alive_non_sinks(energy) = {}
  /\ round > 1
  /\ hard_threshold = 3
  /\ DOMAIN last_transmission = {}
  /\ DOMAIN last_values = NonSinks

\* C23 (as claimed): a construction with n_cluster <= 0 or with a negative
\* hard_threshold, soft_threshold or count_time fails and leaves no usable
\* instance.
C23_InvalidConfigurationRejected ==
  (/\ lastOp.op = "__init__"
   /\ \/ lastOp.value <= 0
      \/ \E i \in 1..3 : lastOp.args[i] < 0)
    => ~lastOp.result

\* the energies at the moment the nodes sense: after the last parameter
\* broadcast of the operation, or as the operation found them
SensingEnergy(lg, e) ==
  IF \E i \in DOMAIN lg : lg[i].ev = "bcast"
  THEN lg[CHOOSE i \in DOMAIN lg :
            lg[i].ev = "bcast" /\ \A j \in DOMAIN lg : lg[j].ev = "bcast" => j <= i].e
  ELSE e

\* C24: in a steady-state phase over a non-empty clustering every non-sink
\* node alive when the phase starts gets the reading of this round into
\* last_values, and every should_transmit evaluation of the phase is made
\* for such a node with exactly that reading.
C24_SensingPrecedesDecisions ==
  [][((GatherStep("steady_state_phase") /\ DOMAIN clusters # {})
        \/ GatherStep("execute")) =>
       \A sensing \in {alive_non_sinks(SensingEnergy(log', energy))} :
         /\ \A n \in sensing :
              n \in DOMAIN last_values' /\ last_values'[n] = lastOp'.vals[n]
         /\ \A n \in DOMAIN last_values' \ sensing :
              n \in DOMAIN last_values /\ last_values'[n] = last_values[n]
         /\ \A i \in DOMAIN log' :
              log'[i].ev = "eval" =>
                /\ log'[i].node \in sensing
                /\ log'[i].size = lastOp'.vals[log'[i].node]]_vars

\* a member that transmitted 2 in an earlier round is evaluated with the 1 it
\* sensed in this round
C24_Witness ==
  /\ lastOp.op = "steady_state_phase"
  /\ \E i \in DOMAIN log :
       /\ log[i].ev = "eval"
       /\ log[i].node \in DOMAIN last_transmission
       /\ last_transmission[log[i].node] = 2
       /\ log[i].size = 1 /\ lastOp.vals[log[i].node] = 1

\* C25: across a steady-state phase over a non-empty clustering the counter
\* of every non-sink node alive at the sensing loop ends at 0 if the node
\* transmitted in the phase and exactly one above its start otherwise; no
\* operation makes a counter negative or lowers it other than by that reset.
C25_CounterDiscipline ==
  [][/\ ((GatherStep("steady_state_phase") /\ DOMAIN clusters # {})
           \/ GatherStep("execute")) =>
          \A n \in alive_non_sinks(SensingEnergy(log', energy)) :
            /\ n \in DOMAIN rounds_since_transmission'
            /\ rounds_since_transmission'[n]
                 = IF EventsOf(log', "tx", n) # {} THEN 0
                   ELSE ReadRST(rounds_since_transmission, n) + 1
     /\ \A n \in DOMAIN rounds_since_transmission' :
          /\ rounds_since_transmission'[n] >= 0
          /\ rounds_since_transmission'[n] < ReadRST(rounds_since_transmission, n)
               => /\ rounds_since_transmission'[n] = 0
                  /\ lastOp'.op \in {"steady_state_phase", "execute"}
                  /\ EventsOf(log', "tx", n) # {}
     /\ DOMAIN rounds_since_transmission \subseteq DOMAIN rounds_since_transmission'
    ]_vars

\* in one phase a member transmitted and was reset while another member,
\* silent for the second round in a row, went from 1 to 2
C25_Witness ==
  /\ lastOp.op = "steady_state_phase"
  /\ \E m, n \in NonSinks :
       /\ EventsOf(log, "tx", m) # {} /\ rounds_since_transmission[m] = 0
       /\ EventsOf(log, "skip", n) # {} /\ rounds_since_transmission[n] = 2

\* the energies when the loop of set_up_phase reaches head h: the heads are
\* visited in the order of the node list, so after the last event of a head
\* listed before h
TurnEnergy(lg, e, h) ==
  LET before == {i \in DOMAIN lg : lg[i].ev \in {"call", "bcast"} /\ lg[i].node < h}
  IN IF before = {} THEN e
     ELSE lg[CHOOSE i \in before : \A j \in before : j <= i].e

\* C26: in a setup phase broadcast_teen_parameters is called exactly once for
\* every non-sink head of the new clustering that is alive at its turn, set
\* flag or not, and for no other node; a called head with members broadcasts
\* right away, and all calls and broadcasts come before the first event of
\* the gathering.
C26_BroadcastPerHead ==
  [][(GatherStep("set_up_phase") \/ GatherStep("execute")) =>
       /\ \A h \in DOMAIN clusters' :
            Cardinality(EventsOf(log', "call", h))
              = IF h # Sink /\ is_alive(TurnEnergy(log', energy, h), h) THEN 1 ELSE 0
       /\ \A i \in DOMAIN log' :
            log'[i].ev = "call" =>
              /\ log'[i].node \in DOMAIN clusters' \ {Sink}
              /\ log'[i].ok = (log'[i].node \in DOMAIN parameters_broadcasted)
              /\ clusters'[log'[i].node] # <<>> =>
                   /\ i + 1 \in DOMAIN log'
                   /\ log'[i + 1].ev = "bcast" /\ log'[i + 1].node = log'[i].node
       /\ \A i \in DOMAIN log' :
            log'[i].ev = "bcast" =>
              /\ i - 1 \in DOMAIN log'
              /\ log'[i - 1].ev = "call" /\ log'[i - 1].node = log'[i].node
       /\ \A i, j \in DOMAIN log' :
            (log'[i].ev \in {"call", "bcast"} /\ log'[j].ev \notin {"call", "bcast"})
              => i < j]_vars

\* a setup over two non-sink heads in which a head whose flag was already set
\* is called and broadcasts again
C26_Witness ==
  /\ lastOp.op = "set_up_phase"
  /\ Cardinality(DOMAIN clusters) = 3
  /\ \E i \in DOMAIN log :
       /\ log[i].ev = "call" /\ log[i].ok
       /\ i + 1 \in DOMAIN log /\ log[i + 1].ev = "bcast"
       /\ energy[log[i].node] < lastOp.e0[log[i].node]

\* C27 (as claimed): whenever a plain member is evaluated in a slot, its head
\* holds the broadcast flag and the parameters the member uses are the ones
\* that head broadcast last.
C27_OrderingGuarantee_Claimed ==
  [][(GatherStep("steady_state_phase") \/ GatherStep("execute")) =>
       \A i \in DOMAIN log' :
         log'[i].ev = "eval" =>
           /\ log'[i].peer \in DOMAIN parameters_broadcasted'
           /\ log'[i].peer \in DOMAIN announced'
           /\ ParametersFor(clusters', log'[i].node) = announced'[log'[i].peer]]_vars

\* C27 (amended): whenever a plain member is evaluated in a slot, its head
\* has broadcast to it in the last setup phase and the member uses the
\* currently resolvable parameters; the head holds the flag and these are the
\* parameters it broadcast last unless a query or a set_cluster_parameters
\* on that head came after that setup phase: within execute always, and in a
\* separate steady-state phase whenever the flag is still there, a flag
\* being removed by those two operations only.
C27_OrderingGuarantee ==
  [][/\ (GatherStep("steady_state_phase") \/ GatherStep("execute")) =>
          \A i \in DOMAIN log' :
            log'[i].ev = "eval" =>
              \A h \in {log'[i].peer} : \A p \in {ParametersFor(clusters', log'[i].node)} :
                /\ h \in DOMAIN announced'
                /\ p = Announced(h)
                /\ log'[i].line
                     = ShouldTransmitAt(p, last_transmission,
                         [n \in {log'[i].node} |->
                            ReadRST(rounds_since_transmission, n) + 1],
                         log'[i].node, log'[i].size).line
                /\ h \in DOMAIN parameters_broadcasted' => p = announced'[h]
                /\ GatherStep("execute") => h \in DOMAIN parameters_broadcasted'
     /\ \A h \in DOMAIN parameters_broadcasted \ DOMAIN parameters_broadcasted' :
          \/ lastOp'.op = "update_parameters_from_query"
          \/ lastOp'.op = "set_cluster_parameters" /\ lastOp'.node = h
     /\ \A h \in DOMAIN announced : h \in DOMAIN announced'
     /\ \A h \in DOMAIN announced' :
          (h \notin DOMAIN announced \/ announced'[h] # announced[h])
            => /\ EventsOf(log', "bcast", h) # {}
               /\ h \in DOMAIN parameters_broadcasted'
               /\ announced'[h] = Announced(h)]_vars

\* a member is evaluated under a head that holds the flag and uses the
\* override that head broadcast in the last setup
C27_Witness ==
  /\ lastOp.op = "steady_state_phase"
  /\ \E i \in DOMAIN log :
       /\ log[i].ev = "eval"
       /\ log[i].peer \in DOMAIN parameters_broadcasted
       /\ log[i].peer \in DOMAIN cluster_parameters
       /\ announced[log[i].peer] = cluster_parameters[log[i].peer]
       /\ get_parameters_for_node(log[i].node) = announced[log[i].peer]
       /\ announced[log[i].peer] # Globals

\* the parameters that apply to head h's cluster after the step
AnnouncedNext(h) ==
  IF h \in DOMAIN cluster_parameters'
  THEN cluster_parameters'[h]
  ELSE <<hard_threshold', soft_threshold', count_time'>>

\* C28: parameters_broadcasted holds only TRUE; the parameters that apply to
\* a head's cluster change only by a query or by set_cluster_parameters on
\* that head, each of which leaves the head without a flag, and a head gets
\* a flag only by broadcasting; so a head holding the flag broadcast after
\* the last such change, and what it broadcast is what applies now.
C28_BroadcastFlagMeaning ==
  [][/\ \A h \in DOMAIN parameters_broadcasted' :
          /\ parameters_broadcasted'[h] = TRUE
          /\ \/ /\ h \in DOMAIN parameters_broadcasted
                /\ lastOp'.op # "update_parameters_from_query"
                /\ ~(lastOp'.op = "set_cluster_parameters" /\ lastOp'.node = h)
                /\ AnnouncedNext(h) = Announced(h)
                /\ announced'[h] = announced[h]
             \/ /\ lastOp'.op \in {"set_up_phase", "execute"}
                /\ EventsOf(log', "bcast", h) # {}
          /\ h \in DOMAIN announced' /\ announced'[h] = AnnouncedNext(h)
     /\ \A h \in Nodes :
          AnnouncedNext(h) # Announced(h)
            => \/ lastOp'.op = "update_parameters_from_query"
               \/ lastOp'.op = "set_cluster_parameters" /\ lastOp'.node = h
     /\ lastOp'.op = "update_parameters_from_query" /\ calls' = calls + 1
          => DOMAIN parameters_broadcasted' = {}
     /\ lastOp'.op = "set_cluster_parameters" /\ calls' = calls + 1
          => lastOp'.node \notin DOMAIN parameters_broadcasted'
    ]_vars

\* two heads held the flag; a new override took it from one of them, whose
\* last broadcast is now out of date, and the other one keeps it
C28_Witness ==
  /\ lastOp.op = "set_cluster_parameters" /\ lastOp.result
  /\ lastOp.node \notin DOMAIN parameters_broadcasted
  /\ announced[lastOp.node] # Announced(lastOp.node)
  /\ \E h \in DOMAIN parameters_broadcasted :
       /\ h # lastOp.node
       /\ parameters_broadcasted[h] = TRUE
       /\ announced[h] = Announced(h)

\* C29 (as claimed): in a gathering no transmission, forward or aggregation
\* is made by a node that is dead at that moment, a head that ran out of
\* energy earlier in the same round included; a head that is dead when the
\* loop reaches it is not recursed into, and the tracking entries of a node
\* that is dead at the sensing loop are not modified.
C29_DeadNodesSkipped ==
  [][((GatherStep("steady_state_phase") /\ DOMAIN clusters # {})
        \/ GatherStep("execute")) =>
       /\ \A i \in DOMAIN log' :
            (log'[i].ev \in {"tx", "fwd", "agg"} /\ log'[i].node # Sink)
              => EnergyBefore(log', i)[log'[i].node] > 0
       /\ \A h \in NonSinks :
            SensingEnergy(log', energy)[h] = 0 => EventsOf(log', "ret", h) = {}
       /\ \A n \in NonSinks :
            SensingEnergy(log', energy)[n] = 0 =>
              /\ n \in DOMAIN last_values' <=> n \in DOMAIN last_values
              /\ n \in DOMAIN last_values => last_values'[n] = last_values[n]
              /\ n \in DOMAIN last_transmission' <=> n \in DOMAIN last_transmission
              /\ n \in DOMAIN last_transmission
                   => last_transmission'[n] = last_transmission[n]
              /\ n \in DOMAIN rounds_since_transmission'
                   <=> n \in DOMAIN rounds_since_transmission
              /\ n \in DOMAIN rounds_since_transmission
                   => rounds_since_transmission'[n] = rounds_since_transmission[n]
    ]_vars

\* the sum of the sizes of the events of lg at the indices S
RECURSIVE SumSizes(_, _)
SumSizes(lg, S) ==
  IF S = {} THEN 0
  ELSE LET i == CHOOSE x \in S : TRUE IN lg[i].size + SumSizes(lg, S \ {i})

\* the events of kind ev addressed to head h
EventsTo(lg, ev, h) == {i \in DOMAIN lg : lg[i].ev = ev /\ lg[i].peer = h}

\* C30 (as claimed): a child head is charged one singlecast to its parent,
\* of the size its sub-tree reported, exactly when the sub-tree reported
\* has_data, and the size a head reports is the aggregation of its own
\* payload and one data message per member that transmitted, plus the sum of
\* the sizes its child heads reported.
C30_SubTreePropagation ==
  [][((GatherStep("steady_state_phase") /\ DOMAIN clusters # {})
        \/ GatherStep("execute")) =>
       /\ \A j \in DOMAIN log' :
            (log'[j].ev = "ret" /\ log'[j].node # Sink) =>
              (log'[j].ok <=>
                 /\ j + 1 \in DOMAIN log'
                 /\ log'[j + 1].ev = "fwd"
                 /\ log'[j + 1].node = log'[j].node
                 /\ log'[j + 1].size = log'[j].size)
       /\ \A i \in DOMAIN log' :
            log'[i].ev = "fwd" =>
              \A b \in {EnergyBefore(log', i)} :
                /\ i - 1 \in DOMAIN log'
                /\ log'[i - 1].ev = "ret" /\ log'[i - 1].ok
                /\ log'[i - 1].node = log'[i].node
                /\ b[log'[i].node] > 0
                /\ \A n \in NonSinks :
                     log'[i].e[n] =
                       IF n = log'[i].node
                       THEN Max(0, b[n] - TxCost(log'[i].size))
                       ELSE IF n = log'[i].peer
                       THEN Max(0, b[n] - RxCost(log'[i].size))
                       ELSE b[n]
       /\ \A j \in DOMAIN log' :
            log'[j].ev = "ret" =>
              \A h \in {log'[j].node} :
                IF log'[j].ok
                THEN log'[j].size
                       = aggregation_size((IF h = Sink THEN 0 ELSE SizeData)
                           + SizeData * Cardinality(EventsTo(log', "tx", h)))
                         + SumSizes(log', EventsTo(log', "fwd", h))
                ELSE /\ log'[j].size = 0 /\ h = Sink
                     /\ EventsTo(log', "tx", h) = {} /\ EventsTo(log', "fwd", h) = {}
    ]_vars

\* what the claim C31 says of head n across a steady-state phase
HeadUngated(n) ==
  /\ EventsOf(log', "eval", n) = {}
  /\ n \in DOMAIN last_transmission' <=> n \in DOMAIN last_transmission
  /\ n \in DOMAIN last_transmission => last_transmission'[n] = last_transmission[n]
  /\ n \in DOMAIN rounds_since_transmission'
  /\ rounds_since_transmission'[n] = ReadRST(rounds_since_transmission, n) + 1
  /\ \E i \in EventsOf(log', "agg", n) :
       log'[i].size = SizeData * (1 + Cardinality(EventsTo(log', "tx", n)))

\* C31 (as claimed): in a round in which n is a non-sink cluster head,
\* should_transmit is not evaluated for n, last_transmission[n] is unchanged,
\* rounds_since_transmission[n] grows by exactly 1 and the head's own payload
\* is part of what it aggregates, whatever it sensed.
C31_HeadsUngated_Claimed ==
  [][(GatherStep("steady_state_phase") \/ GatherStep("execute")) =>
       \A n \in DOMAIN clusters' \ {Sink} : HeadUngated(n)]_vars

\* with the energies e and the clustering cl, h and every head between h
\* and the sink are alive (k bounds the length of the route)
RECURSIVE RouteAliveAt(_, _, _, _)
RouteAliveAt(e, cl, h, k) ==
  IF h = Sink THEN TRUE
  ELSE IF h = -1 \/ k = 0 THEN FALSE
  ELSE e[h] > 0 /\ RouteAliveAt(e, cl, HeadOf(cl, h), k - 1)

\* C31: in a steady-state phase no non-sink cluster head n is evaluated by
\* should_transmit and last_transmission[n] is unchanged; if n is alive when
\* the nodes sense, rounds_since_transmission[n] grows by exactly 1; and if
\* moreover every head on its route to the sink is alive then, n aggregates
\* its own payload with one data message per member that transmitted,
\* whatever n sensed.
C31_HeadsUngated ==
  [][(GatherStep("steady_state_phase") \/ GatherStep("execute")) =>
       \A n \in DOMAIN clusters' \ {Sink} :
         \A se \in {SensingEnergy(log', energy)} :
           /\ EventsOf(log', "eval", n) = {}
           /\ n \in DOMAIN last_transmission' <=> n \in DOMAIN last_transmission
           /\ n \in DOMAIN last_transmission
                => last_transmission'[n] = last_transmission[n]
           /\ se[n] > 0 =>
                /\ n \in DOMAIN rounds_since_transmission'
                /\ rounds_since_transmission'[n]
                     = ReadRST(rounds_since_transmission, n) + 1
           /\ RouteAliveAt(se, clusters', n, Cardinality(NonSinks)) =>
                /\ Cardinality(EventsOf(log', "agg", n)) = 1
                /\ \A i \in EventsOf(log', "agg", n) :
                     log'[i].size
                       = SizeData * (1 + Cardinality(EventsTo(log', "tx", n)))]_vars

\* a head whose last reading was below HT gathered a member's message and
\* aggregated it with its own payload; its counter went from 1 to 2
C31_Witness ==
  /\ lastOp.op \in {"steady_state_phase", "execute"}
  /\ \E n \in DOMAIN clusters \ {Sink} :
       /\ last_values[n] < get_parameters_for_node(n)[1]
       /\ n \notin DOMAIN last_transmission
       /\ rounds_since_transmission[n] = 2
       /\ \E i \in EventsOf(log, "agg", n) : log[i].size = 2 * SizeData

\* C32: in every steady-state phase a plain member that senses a value
\* strictly below its HT does not transmit: its slot is refused at the HT
\* test, its counter grows by one whatever TC is, and its last_transmission
\* entry is left as it was (absent if it was absent); so round after round
\* the counter passes TC and no periodic update is sent.
C32_HTStarvation ==
  [][((GatherStep("steady_state_phase") /\ DOMAIN clusters # {})
        \/ GatherStep("execute")) =>
       \A m \in PlainMembers(clusters', SensingEnergy(log', energy)) :
         \A p \in {get_parameters_for_node(m)'} :
           lastOp'.vals[m] < p[1] =>
             /\ EventsOf(log', "tx", m) = {}
             /\ \A i \in EventsOf(log', "eval", m) :
                  ~log'[i].ok /\ log'[i].line = 124
             /\ rounds_since_transmission'[m]
                  = ReadRST(rounds_since_transmission, m) + 1
             /\ m \in DOMAIN last_transmission' <=> m \in DOMAIN last_transmission
             /\ m \in DOMAIN last_transmission
                  => last_transmission'[m] = last_transmission[m]]_vars

\* after three rounds below HT a plain member that never transmitted has its
\* counter past TC and is refused again; a member that transmitted before
\* is refused at the HT test too
C32_Witness ==
  /\ lastOp.op \in {"steady_state_phase", "execute"}
  /\ \E m, n \in PlainMembers(clusters, energy) :
       /\ \A k \in {m, n} :
            /\ k \in DOMAIN last_values
            /\ last_values[k] < get_parameters_for_node(k)[1]
            /\ \E i \in EventsOf(log, "eval", k) : log[i].line = 124
       /\ m \notin DOMAIN last_transmission
       /\ ReadRST(rounds_since_transmission, m) > get_parameters_for_node(m)[3]
       /\ n \in DOMAIN last_transmission
       /\ ReadRST(rounds_since_transmission, n) >= get_parameters_for_node(n)[3]

\* C33 (as claimed): at the end of every steady_state_phase every node with
\* a last_transmission entry has a last_values entry, and every alive
\* non-sink node whose rounds_since_transmission reads 0 has a
\* last_transmission entry equal to its last_values entry.
C33_TrackingConsistency_Claimed ==
  [][(GatherStep("steady_state_phase") \/ GatherStep("execute")) =>
       /\ DOMAIN last_transmission' \subseteq DOMAIN last_values'
       /\ \A n \in alive_non_sinks(energy') :
            ReadRST(rounds_since_transmission', n) = 0 =>
              /\ n \in DOMAIN last_transmission'
              /\ n \in DOMAIN last_values'
              /\ last_transmission'[n] = last_values'[n]]_vars

\* C33: at the end of every steady_state_phase that found a clustering,
\* every node with a last_transmission entry has a last_values entry, and
\* every alive non-sink node whose rounds_since_transmission reads 0 has a
\* last_transmission entry equal to its last_values entry, the reading of
\* that round.
C33_TrackingConsistency ==
  [][((GatherStep("steady_state_phase") /\ DOMAIN clusters # {})
        \/ GatherStep("execute")) =>
       /\ DOMAIN last_transmission' \subseteq DOMAIN last_values'
       /\ \A n \in alive_non_sinks(energy') :
            ReadRST(rounds_since_transmission', n) = 0 =>
              /\ n \in DOMAIN last_transmission'
              /\ n \in DOMAIN last_values'
              /\ last_transmission'[n] = last_values'[n]
              /\ last_values'[n] = lastOp'.vals[n]]_vars

\* after a phase one alive node has just transmitted its reading while
\* another holds an older transmitted value that differs from its reading
C33_Witness ==
  /\ lastOp.op \in {"steady_state_phase", "execute"}
  /\ \E m, n \in alive_non_sinks(energy) :
       /\ {m, n} \subseteq DOMAIN last_transmission
       /\ rounds_since_transmission[m] = 0
       /\ last_transmission[m] = last_values[m]
       /\ rounds_since_transmission[n] > 0
       /\ last_transmission[n] # last_values[n]

\* C34: every value a steady-state phase records in last_transmission is, when
\* it is recorded, at least the HT that get_parameters_for_node resolves for
\* the node, and no other operation writes last_transmission; so as long as
\* no override exists and hard_threshold is the constructor's value, every
\* last_transmission value is at least the constructor's hard_threshold.
C34_RecordedAboveHT ==
  [][/\ (GatherStep("steady_state_phase") \/ GatherStep("execute")) =>
          \A i \in DOMAIN log' :
            log'[i].ev = "tx" =>
              \A m \in {log'[i].node} :
                /\ last_transmission'[m] = last_values'[m]
                /\ last_transmission'[m] >= get_parameters_for_node(m)'[1]
     /\ \A n \in DOMAIN last_transmission' :
          \/ n \in DOMAIN last_transmission
               /\ last_transmission'[n] = last_transmission[n]
          \/ lastOp'.op \in {"steady_state_phase", "execute"}
               /\ EventsOf(log', "tx", n) # {}
     /\ (cluster_parameters' = EmptyMap /\ hard_threshold' = HardThreshold0) =>
          \A n \in DOMAIN last_transmission' :
            last_transmission'[n] >= HardThreshold0]_vars

\* with the constructor's thresholds in force a member transmitted a reading
\* equal to HT and it was recorded
C34_Witness ==
  /\ lastOp.op \in {"steady_state_phase", "execute"}
  /\ cluster_parameters = EmptyMap /\ hard_threshold = HardThreshold0
  /\ \E m \in NonSinks :
       /\ EventsOf(log, "tx", m) # {}
       /\ last_transmission[m] = get_parameters_for_node(m)[1]
       /\ last_transmission[m] = HardThreshold0

\* C35: set_up_phase (alone or inside execute) leaves cluster_parameters as
\* it was; while overrides exist, a node that no overridden current head
\* lists as a member resolves to the global defaults, so the override of a
\* node that is not a head reaches nobody, and every member of a current
\* head that has an override resolves to that override, also when the head
\* was elected after the override was given.
C35_OverridesBoundToNode ==
  [][/\ (GatherStep("set_up_phase") \/ GatherStep("execute")) =>
          cluster_parameters' = cluster_parameters
     /\ DOMAIN cluster_parameters' # {} =>
          \A n \in Nodes :
            \A p \in {get_parameters_for_node(n)'} :
              \A K \in {{k \in DOMAIN cluster_parameters' \cap DOMAIN clusters' :
                           n \in SeqToSet(clusters'[k])}} :
                /\ K = {} => p = <<hard_threshold', soft_threshold', count_time'>>
                /\ \A k \in K : p = cluster_parameters'[k]]_vars

\* an override given to a node before it was ever a head: the setup that
\* follows elects the node, and its members resolve to the override
C35_Witness ==
  /\ ticks = 2 /\ lastOp.op = "set_up_phase"
  /\ \E k \in DOMAIN cluster_parameters \cap DOMAIN clusters :
       /\ k # Sink
       /\ clusters[k] # <<>>
       /\ cluster_parameters[k] # Globals
       /\ \A m \in SeqToSet(clusters[k]) :
            get_parameters_for_node(m) = cluster_parameters[k]
       /\ get_parameters_for_node(k) = Globals

\* a setup's call of broadcast_teen_parameters at event i of the trace lg
\* charged nobody: the energies when the next event starts, or at the end of
\* the setup, are those the call found
CallChargesNobody(lg, i, eEnd) ==
  IF i = Len(lg) THEN eEnd = lg[i].e
  ELSE lg[i + 1].ev = "call" /\ lg[i + 1].e = lg[i].e

\* the non-sink heads of cl without members
MemberlessHeads(cl) == {h \in DOMAIN cl \ {Sink} : cl[h] = <<>>}

\* C36 (as claimed): a setup makes no parameter broadcast for a cluster head
\* with an empty member set: the call charges nobody and neither creates nor
\* sets the head's parameters_broadcasted entry, and after the setup such a
\* head has no broadcast flag.
C36_MemberlessHeadSilent_Claimed ==
  [][(GatherStep("set_up_phase") \/ GatherStep("execute")) =>
       \A h \in MemberlessHeads(clusters') :
         /\ EventsOf(log', "bcast", h) = {}
         /\ h \in DOMAIN parameters_broadcasted' <=> h \in DOMAIN parameters_broadcasted
         /\ h \notin DOMAIN parameters_broadcasted']_vars

\* C36: a setup makes no parameter broadcast for a cluster head with an
\* empty member set: the call charges nobody and neither creates nor sets
\* the head's parameters_broadcasted entry, so after the setup such a head
\* has a broadcast flag only if it had one before.
C36_MemberlessHeadSilent ==
  [][/\ (GatherStep("set_up_phase") \/ GatherStep("execute")) =>
          \A h \in MemberlessHeads(clusters') :
            /\ EventsOf(log', "bcast", h) = {}
            /\ h \in DOMAIN parameters_broadcasted'
                 <=> h \in DOMAIN parameters_broadcasted
            /\ h \in DOMAIN parameters_broadcasted
                 => parameters_broadcasted'[h] = parameters_broadcasted[h]
     /\ GatherStep("set_up_phase") =>
          \A h \in MemberlessHeads(clusters') :
            \A i \in EventsOf(log', "call", h) :
              CallChargesNobody(log', i, energy')]_vars

\* a setup in which no head has members: a head without a flag was called,
\* nothing was charged and it still has none, while the flag of an earlier
\* setup is still held
C36_Witness ==
  /\ lastOp.op = "set_up_phase"
  /\ energy = lastOp.e0
  /\ \E h \in MemberlessHeads(clusters) :
       /\ EventsOf(log, "call", h) # {}
       /\ h \notin DOMAIN parameters_broadcasted
  /\ DOMAIN parameters_broadcasted # {}

\* C37: a plain member's transmission is charged and recorded only in a slot
\* in which the member and the head it sends to are both alive when the slot
\* starts: every data transmission of a steady-state phase is made by an
\* alive member to an alive head, and a member's last_transmission and
\* counter are written only by such a transmission.
C37_TransmitToAliveHead ==
  [][(GatherStep("steady_state_phase") \/ GatherStep("execute")) =>
       \A i \in DOMAIN log' :
         log'[i].ev = "tx" =>
           /\ log'[i - 1].ev = "eval" /\ log'[i - 1].node = log'[i].node
           /\ is_alive(log'[i - 1].e, log'[i].node)
           /\ is_alive(log'[i - 1].e, log'[i].peer)]_vars

\* the clusters that list node n as a member
ClustersOf(n) == {k \in DOMAIN clusters : n \in SeqToSet(clusters[k])}

\* what C38 says of the present state
ResolvedThroughMembership ==
  /\ \A h \in (DOMAIN clusters \cap DOMAIN cluster_parameters) \ {Sink} :
       \A K \in {ClustersOf(h)} :
         /\ h \notin K
         /\ get_parameters_for_node(h) =
              IF \E k \in K : k \in DOMAIN cluster_parameters
              THEN cluster_parameters[CHOOSE k \in K : k \in DOMAIN cluster_parameters]
              ELSE Globals
         /\ Cardinality(K) <= 1
  /\ get_parameters_for_node(Sink) = Globals
  /\ \A n \in Nodes : ClustersOf(n) = {} => get_parameters_for_node(n) = Globals

\* C38: in the initial state and after every operation, a cluster head that has an override of its own
\* resolves to the override of the head it is attached to if that head has
\* one and to the global defaults otherwise, never through its own entry;
\* the sink and every node that is a member of no cluster resolve to the
\* global defaults.
C38_HeadResolution ==
  [][/\ ticks = 0 => ResolvedThroughMembership
     /\ ResolvedThroughMembership']_vars

\* a chain sink <- a <- b <- c with overrides on the sink and on b: a, with
\* no override, resolves to the sink's; b resolves to the defaults and not
\* to its own override; c resolves to b's
C38_Witness ==
  /\ Sink \in DOMAIN cluster_parameters
  /\ cluster_parameters[Sink] # Globals
  /\ \E a, b, c \in NonSinks :
       /\ {a, b} \subseteq DOMAIN clusters
       /\ ClustersOf(a) = {Sink} /\ ClustersOf(b) = {a} /\ ClustersOf(c) = {b}
       /\ a \notin DOMAIN cluster_parameters
       /\ b \in DOMAIN cluster_parameters
       /\ get_parameters_for_node(a) = cluster_parameters[Sink]
       /\ get_parameters_for_node(b) = Globals
       /\ get_parameters_for_node(b) # cluster_parameters[b]
       /\ get_parameters_for_node(c) = cluster_parameters[b]
====
